---- MODULE Spec2Model ----
(***************************************************************************)
(* Model of the Sinhala accounting-standards RAG bot:                      *)
(*   utils/document_processor.py     DocumentProcessor (clean, chunk)      *)
(*   utils/sinhala_transliterator.py SinhalaTransliterator (normalize)     *)
(*                                                                         *)
(* A Python str is a sequence of characters; a character is a one-element  *)
(* atom: printable ASCII stands for itself, "LF" and "TAB" are the control  *)
(* characters, and "uXXXX" is the code point U+XXXX.                       *)
(***************************************************************************)
EXTENDS Integers, Sequences, FiniteSets

VARIABLES
    chunk_size,          \* DocumentProcessor.chunk_size
    chunk_overlap,       \* DocumentProcessor.chunk_overlap
    dp_op,               \* the DocumentProcessor method that ran last
    pages,               \* extract_text_from_pdf: what each page's extract_text() gave
    text,                \* the text handed to clean_text / create_chunks
    cleaned,             \* what clean_text returned
    chunks,              \* what create_chunks returned
    seeded,              \* create_chunks: one record per emitted buffer (lines 86-94)
    transliteration_map, \* SinhalaTransliterator.transliteration_map (insertion-ordered)
    phrase_map,          \* SinhalaTransliterator.phrase_map (insertion-ordered)
    tr_op,               \* the SinhalaTransliterator method that ran last
    query,               \* the argument of that call
    result,              \* process_query's local `result` (line 145), <<>> when not assigned
    ret,                 \* the str the last call returned, <<>> when it returned none
    is_sinhala,          \* what the last _is_sinhala_text call returned
    mappings_added,      \* the add_custom_mapping calls made so far, in order
    suggestions,         \* what the last suggest_sinhala_terms call returned
    common_terms,        \* what the last get_common_terms call returned
    pq_pc,               \* a process_query call in steps: where it stands
    pq_words,            \* its local `words` (line 131)
    pq_translated,       \* its local `translated_words` (lines 132-143)
    scan_pos,            \* _find_partial_match: the entry the dict iterator yields next
    scan_used,           \* _find_partial_match: the dict's size when the iterator was made
    map_at_call,         \* the word dictionary when the call began
    adds_at_call,        \* how many add_custom_mapping calls had been made by then
    uploads,             \* the uploads directory as the last startup left it
    store,               \* the collection the index service persists under vectorstore/
    collection,          \* VectorStore.collection is not None
    rag_state,           \* the serving process: "down", "running", or "crashed" at import
    rag_op,              \* the SinhalaRAG operation that ran last
    rag_outcome,         \* whether it "returned" or "raised"
    response,            \* what SinhalaRAG.process_query returned
    calls,               \* the calls that operation made to its collaborators, in order
    startups             \* how many times the process has been started

dp_vars == <<chunk_size, chunk_overlap, dp_op, pages, text, cleaned, chunks, seeded>>
tr_vars == <<transliteration_map, phrase_map, tr_op, query, result, ret, is_sinhala,
             mappings_added, suggestions, common_terms>>
cq_vars == <<pq_pc, pq_words, pq_translated, scan_pos, scan_used, map_at_call, adds_at_call>>
rag_vars == <<uploads, store, collection, rag_state, rag_op, rag_outcome, response, calls,
              startups>>
vars == <<dp_vars, tr_vars, cq_vars, rag_vars>>

----------------------------------------------------------------------------
(* Bounds of the model *)

\* create_chunks inputs: at most this many sentence blocks per text
MaxSentences == 3
\* clean_text inputs: at most this many blocks per raw text
MaxBlocks == 5
\* extract_text_from_pdf inputs: at most this many pages per document
MaxPages == 2
\* process_query inputs: at most this many whitespace-separated tokens
MaxTokens == 2
\* at most this many add_custom_mapping calls in a run
MaxAdds == 1
\* the serving process is started at most this many times
MaxStartups == 3

----------------------------------------------------------------------------
(* Characters and the classes the regular expressions use *)

\* [඀-෿] characters of category Lo: matched by \w
SinhalaLetters ==
    {"u0D85", "u0D9A", "u0D9C", "u0DA7", "u0DAB", "u0DAD", "u0DAF", "u0DB1", "u0DB4", "u0DB7",
     "u0DB8", "u0DBA", "u0DBB", "u0DBD", "u0DC0", "u0DC1", "u0DC2", "u0DC3", "u0DC4"}

\* [඀-෿] characters of category Mn/Mc (virama, vowel signs): not matched by \w
SinhalaSigns == {"u0DCA", "u0DCF", "u0DD2", "u0DD4", "u0DD9", "u0DDA", "u0DDC"}

\* the class [඀-෿]
SinhalaBlock == SinhalaLetters \cup SinhalaSigns

LowerLatin ==
    {"a", "b", "c", "d", "e", "f", "g", "h", "i", "k", "l", "m", "n", "o", "p", "r",
     "s", "t", "u", "w", "x", "y"}

UpperLatin == {"C", "K", "M", "U"}

\* the class \d
Digits == {"0", "1", "2", "3", "4", "5", "6", "7", "8", "9"}

\* the class \s
Whitespace == {" ", "LF", "TAB", "CR"}

\* the class \w (str.isalnum() or "_")
WordChars == SinhalaLetters \cup LowerLatin \cup UpperLatin \cup Digits \cup {"_"}

\* ASCII punctuation used by the inputs: in  -~, outside \w and \s
Punctuation == {".", "!", "?", ",", "-"}

\* characters outside [඀-෿ -~\n\r\t]:
\* e-acute, zero-width joiner, Khmer sign khan
OutsideAllowed == {"u00E9", "u200D", "u17D4"}

\* the class clean_text keeps: [඀-෿ -~\n\r\t]
AllowedChars ==
    SinhalaBlock \cup LowerLatin \cup UpperLatin \cup Digits \cup Punctuation
    \cup {" ", "_", "LF", "CR", "TAB"}

\* str.lower() on one character
LowerChar(c) ==
    CASE c = "C" -> "c"
      [] c = "K" -> "k"
      [] c = "M" -> "m"
      [] c = "U" -> "u"
      [] OTHER -> c

----------------------------------------------------------------------------
(* Python str operations on sequences of characters *)

Rep(c, n) == [i \in 1..n |-> c]

Min(a, b) == IF a < b THEN a ELSE b

\* str.lower()
Lower(s) == [i \in 1..Len(s) |-> LowerChar(s[i])]

\* len(re.findall(r'[class]', s))
CountIn(s, class) == Cardinality({i \in 1..Len(s) : s[i] \in class})

RECURSIVE SkipWs(_, _)
\* the first index >= i of s that holds no whitespace (Len(s)+1 when none)
SkipWs(s, i) ==
    IF i > Len(s) \/ s[i] \notin Whitespace THEN i ELSE SkipWs(s, i + 1)

RECURSIVE SkipWsBack(_, _)
\* the last index <= i of s that holds no whitespace (0 when none)
SkipWsBack(s, i) ==
    IF i < 1 \/ s[i] \notin Whitespace THEN i ELSE SkipWsBack(s, i - 1)

\* str.strip()
Strip(s) == SubSeq(s, SkipWs(s, 1), SkipWsBack(s, Len(s)))

\* the least element of a non-empty set of integers
Least(S) == CHOOSE x \in S : \A y \in S : x <= y

\* the first index >= i of s that holds a character of class (Len(s)+1 when none)
NextIn(s, i, class) ==
    LET hits == {j \in i..Len(s) : s[j] \in class}
    IN  IF hits = {} THEN Len(s) + 1 ELSE Least(hits)

RECURSIVE NextNotIn(_, _, _)
\* the first index >= i of s that holds no character of class (Len(s)+1 when none)
NextNotIn(s, i, class) ==
    IF i > Len(s) \/ s[i] \notin class THEN i ELSE NextNotIn(s, i + 1, class)

RECURSIVE SplitFrom(_, _, _)
\* re.split(r'[class]', s) from index i on: empty pieces are kept
SplitFrom(s, i, class) ==
    LET j == NextIn(s, i, class)
    IN  IF j > Len(s)
        THEN <<SubSeq(s, i, Len(s))>>
        ELSE <<SubSeq(s, i, j - 1)>> \o SplitFrom(s, j + 1, class)

RECURSIVE WordsFrom(_, _)
\* str.split() from index i on: runs of non-whitespace, no empty words
WordsFrom(s, i) ==
    LET b == SkipWs(s, i)
        e == NextIn(s, b, Whitespace)
    IN  IF b > Len(s) THEN <<>> ELSE <<SubSeq(s, b, e - 1)>> \o WordsFrom(s, e)

\* str.split()
Words(s) == WordsFrom(s, 1)

RECURSIVE Join(_)
\* ' '.join(ws)
Join(ws) ==
    IF Len(ws) = 0 THEN <<>>
    ELSE IF Len(ws) = 1 THEN ws[1]
    ELSE ws[1] \o <<" ">> \o Join(Tail(ws))

\* k in s
IsSubstring(k, s) ==
    \E i \in 1..(Len(s) - Len(k) + 1) : SubSeq(s, i, i + Len(k) - 1) = k

\* True iff s holds p at index i
StartsWithAt(s, i, p) ==
    i + Len(p) - 1 <= Len(s) /\ SubSeq(s, i, i + Len(p) - 1) = p

RECURSIVE ReplaceFrom(_, _, _, _)
\* s.replace(old, new) from index i on: non-overlapping, left to right (old non-empty)
ReplaceFrom(s, i, old, new) ==
    LET starts == {j \in i..Len(s) : StartsWithAt(s, j, old)}
    IN  IF starts = {} THEN SubSeq(s, i, Len(s))
        ELSE LET m == Least(starts)
             IN  SubSeq(s, i, m - 1) \o new \o ReplaceFrom(s, m + Len(old), old, new)

\* s.replace(old, new)
Replace(s, old, new) == ReplaceFrom(s, 1, old, new)

\* re.sub(r'[^class]', '', s)
Keep(s, class) == SelectSeq(s, LAMBDA c : c \in class)

DigitChar == <<"1", "2", "3", "4", "5", "6", "7", "8", "9">>

RECURSIVE Dec(_)
\* str(n) for n >= 0: the decimal digits of n
Dec(n) ==
    IF n = 0 THEN <<"0">>
    ELSE IF n < 10 THEN <<DigitChar[n]>>
    ELSE Dec(n \div 10) \o (IF n % 10 = 0 THEN <<"0">> ELSE <<DigitChar[n % 10]>>)

----------------------------------------------------------------------------
(* utils/document_processor.py: DocumentProcessor *)

\* the word for "page", U+0DB4 U+0DD2 U+0DA7 U+0DD4 U+0DC0 (lines 24, 65, 66)
PageWord == <<"u0DB4", "u0DD2", "u0DA7", "u0DD4", "u0DC0">>

\* chunks of at most this many characters are dropped (line 105)
MinChunkLength == 50

\* chunk_overlap is divided by this to give a number of words (line 91)
OverlapDivisor == 10

\* the sentence delimiters of line 76: . ! ? and U+17D4
SentenceEnd == {".", "!", "?", "u17D4"}

RECURSIVE CollapseFrom(_, _)
\* re.sub(r'\s+', ' ', s) from index i on
CollapseFrom(s, i) ==
    LET w == NextIn(s, i, Whitespace)
    IN  IF w > Len(s) THEN SubSeq(s, i, Len(s))
        ELSE SubSeq(s, i, w - 1) \o <<" ">>
             \o CollapseFrom(s, NextNotIn(s, w, Whitespace))

\* line 48
CollapseWhitespace(s) == CollapseFrom(s, 1)

\* lines 54-62: each str.replace puts the same code point back
FixVowelMarks(s) ==
    [i \in 1..Len(s) |->
        CASE s[i] = "u0DCF" -> "u0DCF"
          [] s[i] = "u0DD3" -> "u0DD3"
          [] s[i] = "u0DD4" -> "u0DD4"
          [] s[i] = "u0DD6" -> "u0DD6"
          [] s[i] = "u0DD9" -> "u0DD9"
          [] s[i] = "u0DDA" -> "u0DDA"
          [] s[i] = "u0DDC" -> "u0DDC"
          [] s[i] = "u0DDD" -> "u0DDD"
          [] s[i] = "u0DDE" -> "u0DDE"
          [] OTHER -> s[i]]

\* where a match of r'PAGE \d+' that starts at i ends (exclusive); 0 when none starts there
FooterEnd(s, i) ==
    IF StartsWithAt(s, i, PageWord \o <<" ">>)
       /\ i + Len(PageWord) + 1 <= Len(s)
       /\ s[i + Len(PageWord) + 1] \in Digits
    THEN NextNotIn(s, i + Len(PageWord) + 1, Digits)
    ELSE 0

RECURSIVE RemoveFootersFrom(_, _)
\* re.sub(r'PAGE \d+', '', s) from index i on
RemoveFootersFrom(s, i) ==
    LET starts == {j \in i..Len(s) : FooterEnd(s, j) > 0}
    IN  IF starts = {} THEN SubSeq(s, i, Len(s))
        ELSE LET m == Least(starts)
             IN  SubSeq(s, i, m - 1) \o RemoveFootersFrom(s, FooterEnd(s, m))

\* line 65
RemoveFooters(s) == RemoveFootersFrom(s, 1)

\* where a match of r'--- PAGE \d+ ---' that starts at i ends (exclusive); 0 when none
MarkerEnd(s, i) ==
    LET head == <<"-", "-", "-", " ">> \o PageWord \o <<" ">>
        d == i + Len(head)
    IN  IF StartsWithAt(s, i, head) /\ d <= Len(s) /\ s[d] \in Digits
        THEN LET e == NextNotIn(s, d, Digits)
             IN  IF StartsWithAt(s, e, <<" ", "-", "-", "-">>) THEN e + 4 ELSE 0
        ELSE 0

RECURSIVE ReplaceMarkersFrom(_, _)
\* re.sub(r'--- PAGE \d+ ---', '\n', s) from index i on
ReplaceMarkersFrom(s, i) ==
    LET starts == {j \in i..Len(s) : MarkerEnd(s, j) > 0}
    IN  IF starts = {} THEN SubSeq(s, i, Len(s))
        ELSE LET m == Least(starts)
             IN  SubSeq(s, i, m - 1) \o <<"LF">> \o ReplaceMarkersFrom(s, MarkerEnd(s, m))

\* line 66
ReplaceMarkers(s) == ReplaceMarkersFrom(s, 1)

\* DocumentProcessor.clean_text
clean_text(s) ==
    Strip(ReplaceMarkers(RemoveFooters(FixVowelMarks(
        Keep(CollapseWhitespace(s), AllowedChars)))))

\* line 76-77: the stripped, non-empty pieces between sentence delimiters
Sentences(s) ==
    LET pieces == SplitFrom(s, 1, SentenceEnd)
        stripped == [i \in 1..Len(pieces) |-> Strip(pieces[i])]
    IN  SelectSeq(stripped, LAMBDA p : p # <<>>)

\* line 84: adding this sentence would exceed the chunk size
ExceedsChunkSize(current_chunk, sentence, size) ==
    Len(current_chunk) + Len(sentence) > size

\* lines 90-91: words[-min(chunk_overlap // 10, len(words)):]
\* (a slice from -0 is the whole list)
OverlapWords(words, overlap) ==
    LET n == Min(overlap \div OverlapDivisor, Len(words))
    IN  IF n = 0 THEN words ELSE SubSeq(words, Len(words) - n + 1, Len(words))

\* lines 89-94: the buffer that follows an emitted one
NextBuffer(current_chunk, sentence, overlap) ==
    IF overlap > 0
    THEN Join(OverlapWords(Words(current_chunk), overlap)) \o <<" ">> \o sentence
    ELSE sentence

\* lines 82-98 with a hard bound: a sentence that starts a buffer is cut to size
ChunkStep_Truncating(st, sentence, size, overlap) ==
    IF ExceedsChunkSize(st.current_chunk, sentence, size)
    THEN IF st.current_chunk # <<>>
         THEN LET next == NextBuffer(st.current_chunk, SubSeq(sentence, 1, Min(size, Len(sentence))),
                                     overlap)
              IN  [chunks |-> Append(st.chunks, Strip(st.current_chunk)),
                   current_chunk |-> next,
                   seeded |-> Append(st.seeded,
                                [emitted |-> st.current_chunk,
                                 sentence |-> sentence,
                                 buffer |-> next])]
         ELSE [st EXCEPT !.current_chunk = SubSeq(sentence, 1, Min(size, Len(sentence)))]
    ELSE [st EXCEPT !.current_chunk =
            IF st.current_chunk # <<>>
            THEN st.current_chunk \o <<" ">> \o sentence
            ELSE sentence]

\* lines 82-98, one iteration: st = [chunks, current_chunk, seeded]
ChunkStep(st, sentence, size, overlap) ==
    IF ExceedsChunkSize(st.current_chunk, sentence, size)
    THEN IF st.current_chunk # <<>>
         THEN LET next == NextBuffer(st.current_chunk, sentence, overlap)
              IN  [chunks |-> Append(st.chunks, Strip(st.current_chunk)),
                   current_chunk |-> next,
                   seeded |-> Append(st.seeded,
                                [emitted |-> st.current_chunk,
                                 sentence |-> sentence,
                                 buffer |-> next])]
         ELSE [st EXCEPT !.current_chunk = sentence]
    ELSE [st EXCEPT !.current_chunk =
            IF st.current_chunk # <<>>
            THEN st.current_chunk \o <<" ">> \o sentence
            ELSE sentence]

RECURSIVE ChunkLoop(_, _, _, _, _)
\* lines 82-98: the loop over sentences i..
ChunkLoop(st, sentences, i, size, overlap) ==
    IF i > Len(sentences) THEN st
    ELSE ChunkLoop(ChunkStep(st, sentences[i], size, overlap), sentences, i + 1,
                   size, overlap)

\* line 105 with >= for >: a chunk of exactly the minimum length is kept
KeepChunk_AtLeast(chunk) == Len(chunk) >= MinChunkLength

\* line 105: a chunk is kept
KeepChunk(chunk) == Len(chunk) > MinChunkLength

\* DocumentProcessor.create_chunks, with the loop's record of seeded buffers
ChunkRun(s, size, overlap) ==
    IF s = <<>>
    THEN [chunks |-> <<>>, seeded |-> <<>>]
    ELSE LET st == ChunkLoop([chunks |-> <<>>, current_chunk |-> <<>>, seeded |-> <<>>],
                             Sentences(s), 1, size, overlap)
             all == IF Strip(st.current_chunk) # <<>>
                    THEN Append(st.chunks, Strip(st.current_chunk))
                    ELSE st.chunks
         IN  [chunks |-> SelectSeq(all, KeepChunk), seeded |-> st.seeded]

\* DocumentProcessor.create_chunks
create_chunks(s, size, overlap) == ChunkRun(s, size, overlap).chunks

\* lines 20-28: the text of pages i.., each non-empty page after its marker
RECURSIVE PagesText(_, _)
PagesText(ps, i) ==
    IF i > Len(ps) THEN <<>>
    ELSE (IF ps[i].ok /\ Strip(ps[i].text) # <<>>
          THEN <<"LF", "-", "-", "-", " ">> \o PageWord \o <<" ">> \o Dec(i)
               \o <<" ", "-", "-", "-", "LF">> \o ps[i].text
          ELSE <<>>)
         \o PagesText(ps, i + 1)

\* DocumentProcessor.__init__ defaults (line 9)
DefaultChunkSize == 1000
DefaultChunkOverlap == 200

----------------------------------------------------------------------------
(* utils/sinhala_transliterator.py: SinhalaTransliterator *)

\* lines 10-97: entries of the word dictionary, in insertion order
InitialTransliterationMap == <<
    \* line 14: 'ginumkaranaya'
    <<<<"g", "i", "n", "u", "m", "k", "a", "r", "a", "n", "a", "y", "a">>,
      <<"u0D9C", "u0DD2", "u0DAB", "u0DD4", "u0DB8", "u0DCA", "u0D9A", "u0DBB", "u0DAB",
        "u0DBA">>>>,
    \* line 43: 'cash'
    <<<<"c", "a", "s", "h">>, <<"u0DB8", "u0DD4", "u0DAF", "u0DBD", "u0DCA">>>>,
    \* line 45: 'flow'
    <<<<"f", "l", "o", "w">>,
      <<"u0DB4", "u0DCA", "u200D", "u0DBB", "u0DC0", "u0DCF", "u0DC4">>>>,
    \* line 49: 'customer'
    <<<<"c", "u", "s", "t", "o", "m", "e", "r">>,
      <<"u0D9C", "u0DB1", "u0DD4", "u0DAF", "u0DD9", "u0DB1", "u0DD4", "u0D9A", "u0DBB",
        "u0DD4">>>>,
    \* line 69: 'use'
    <<<<"u", "s", "e">>, <<"u0DB7", "u0DCF", "u0DC0", "u0DD2", "u0DAD">>>>,
    \* line 83: 'how'
    <<<<"h", "o", "w">>, <<"u0D9A", "u0DDC", "u0DC4", "u0DDC", "u0DB8", "u0DAF">>>>,
    \* line 84: 'kohomada'
    <<<<"k", "o", "h", "o", "m", "a", "d", "a">>,
      <<"u0D9A", "u0DDC", "u0DC4", "u0DDC", "u0DB8", "u0DAF">>>> >>

\* lines 100-111: entries of the phrase dictionary, in insertion order
InitialPhraseMap == <<
    \* line 101: 'ginumkaranaya kohomada'
    <<<<"g", "i", "n", "u", "m", "k", "a", "r", "a", "n", "a", "y", "a", " ",
        "k", "o", "h", "o", "m", "a", "d", "a">>,
      <<"u0D9C", "u0DD2", "u0DAB", "u0DD4", "u0DB8", "u0DCA", "u0D9A", "u0DBB", "u0DAB",
        "u0DBA", " ", "u0D9A", "u0DDC", "u0DC4", "u0DDC", "u0DB8", "u0DAF">>>>,
    \* line 105: 'mudal prawaha'
    <<<<"m", "u", "d", "a", "l", " ", "p", "r", "a", "w", "a", "h", "a">>,
      <<"u0DB8", "u0DD4", "u0DAF", "u0DBD", "u0DCA", " ", "u0DB4", "u0DCA", "u200D",
        "u0DBB", "u0DC0", "u0DCF", "u0DC4">>>> >>

\* key in d
HasKey(d, key) == \E i \in 1..Len(d) : d[i][1] = key

\* d[key]
Lookup(d, key) == d[CHOOSE i \in 1..Len(d) : d[i][1] = key][2]

\* d.setdefault(key, value) for d[key] = value: an existing key keeps its value
DictSet_SetDefault(d, key, value) ==
    IF HasKey(d, key) THEN d ELSE Append(d, <<key, value>>)

\* d[key] = value: an existing key keeps its place, a new key goes last
DictSet(d, key, value) ==
    IF HasKey(d, key)
    THEN [i \in 1..Len(d) |-> IF d[i][1] = key THEN <<key, value>> ELSE d[i]]
    ELSE Append(d, <<key, value>>)

\* line 160 with >= for >: exactly half counts as native script
_is_sinhala_text_AtLeastHalf(s) ==
    LET sinhala_chars == CountIn(s, SinhalaBlock)
        total_chars == CountIn(s, WordChars)
    IN  total_chars > 0 /\ 2 * sinhala_chars >= total_chars

\* SinhalaTransliterator._is_sinhala_text: more than half (line 160)
_is_sinhala_text(s) ==
    LET sinhala_chars == CountIn(s, SinhalaBlock)
        total_chars == CountIn(s, WordChars)
    IN  total_chars > 0 /\ 2 * sinhala_chars > total_chars

RECURSIVE PhrasePass(_, _, _)
\* lines 126-128: the phrase entries i.. applied in order to query_lower
PhrasePass(query_lower, pm, i) ==
    IF i > Len(pm) THEN query_lower
    ELSE PhrasePass(IF IsSubstring(pm[i][1], query_lower)
                    THEN Replace(query_lower, pm[i][1], pm[i][2])
                    ELSE query_lower,
                    pm, i + 1)

RECURSIVE PartialFrom(_, _, _)
\* lines 164-168: the scan of the word dictionary from entry i on
PartialFrom(word, d, i) ==
    IF i > Len(d) THEN word
    ELSE IF (IsSubstring(word, d[i][1]) \/ IsSubstring(d[i][1], word)) /\ Len(word) > 3
         THEN d[i][2]
         ELSE PartialFrom(word, d, i + 1)

RECURSIVE PartialBackFrom(_, _, _)
\* the scan of lines 164-168 taken from the last entry to the first
PartialBackFrom(word, d, i) ==
    IF i < 1 THEN word
    ELSE IF (IsSubstring(word, d[i][1]) \/ IsSubstring(d[i][1], word)) /\ Len(word) > 3
         THEN d[i][2]
         ELSE PartialBackFrom(word, d, i - 1)

\* _find_partial_match returning the last entry that qualifies, not the first
_find_partial_match_Last(word, d) == PartialBackFrom(word, d, Len(d))

\* SinhalaTransliterator._find_partial_match
_find_partial_match(word, d) == PartialFrom(word, d, 1)

\* line 136: re.sub(r'[^\w]', '', word)
CleanWord(word) == Keep(word, WordChars)

\* lines 135-143: what one word of the split query contributes
TranslateWord(word, d) ==
    LET clean_word == CleanWord(word)
    IN  IF HasKey(d, clean_word)
        THEN Lookup(d, clean_word)
        ELSE LET translated == _find_partial_match(clean_word, d)
             IN  IF translated # <<>> THEN translated ELSE word

\* lines 119-145: the candidate built from a non-empty, non-native query
Candidate(q, d, pm) ==
    LET words == Words(PhrasePass(Lower(q), pm, 1))
    IN  Join([i \in 1..Len(words) |-> TranslateWord(words[i], d)])

\* SinhalaTransliterator._translation_score, as <<numerator, denominator>>
_translation_score(original, translated) ==
    IF original = translated THEN <<0, 1>>
    ELSE IF Len(translated) = 0 THEN <<0, 1>>
    ELSE <<CountIn(translated, SinhalaBlock), Len(translated)>>

\* line 148 with >= for >: a score of exactly 0.3 is accepted
SignificantTranslation_AtLeast(score) == 10 * score[1] >= 3 * score[2]

\* line 148: score > 0.3
SignificantTranslation(score) == 10 * score[1] > 3 * score[2]

\* SinhalaTransliterator.process_query: [result, ret, checked, native]
process_query(q, d, pm) ==
    IF q = <<>>
    THEN [result |-> <<>>, ret |-> q, checked |-> FALSE, native |-> FALSE]
    ELSE IF _is_sinhala_text(q)
    THEN [result |-> <<>>, ret |-> q, checked |-> TRUE, native |-> TRUE]
    ELSE LET cand == Candidate(q, d, pm)
         IN  [result |-> cand,
              ret |-> IF SignificantTranslation(_translation_score(q, cand))
                      THEN cand ELSE q,
              checked |-> TRUE, native |-> FALSE]

\* line 190 without .lower(): the key is stored as given
add_custom_mapping_NoLower(d, english, sinhala) == DictSet(d, english, sinhala)

\* SinhalaTransliterator.add_custom_mapping (line 190)
add_custom_mapping(d, english, sinhala) == DictSet(d, Lower(english), sinhala)

\* the number of suggestions suggest_sinhala_terms returns at most (line 202)
MaxSuggestions == 5

\* SinhalaTransliterator.get_common_terms: a copy of the word dictionary
get_common_terms(d) == d

\* SinhalaTransliterator.suggest_sinhala_terms (lines 195-202)
suggest_sinhala_terms(partial_query, d) ==
    LET partial_lower == Lower(partial_query)
        hits == SelectSeq(d, LAMBDA e :
                    \/ IsSubstring(partial_lower, e[1])
                    \/ StartsWithAt(e[1], 1, partial_lower))
        all == [i \in 1..Len(hits) |-> hits[i][2]]
    IN  SubSeq(all, 1, Min(MaxSuggestions, Len(all)))

----------------------------------------------------------------------------
(* utils/vector_store.py: VectorStore; app.py and main.py: SinhalaRAG *)

\* DocumentProcessor.extract_text_from_pdf on a file that opens as the pages `doc`,
\* or (readable = FALSE) on one that open() or PdfReader rejects
extract_text_from_pdf(readable, doc, size, overlap) ==
    LET raw == PagesText(doc, 1)
    IN  IF ~readable \/ Strip(raw) = <<>>
        THEN <<>>
        ELSE create_chunks(clean_text(raw), size, overlap)

\* str.endswith
EndsWith(s, suffix) ==
    /\ Len(s) >= Len(suffix)
    /\ SubSeq(s, Len(s) - Len(suffix) + 1, Len(s)) = suffix

\* the three labels of get_document_type (app.py lines 77, 79, 80)
AccountingStandard == "accounting standard (app.py:77)"
FinancialReportingStandard == "financial reporting standard (app.py:79)"
Standard == "standard (app.py:80)"

\* SinhalaRAG.get_document_type
get_document_type(filename) ==
    IF IsSubstring(<<"L", "K", "A", "S">>, filename) THEN AccountingStandard
    ELSE IF IsSubstring(<<"S", "L", "F", "R", "S">>, filename) THEN FinancialReportingStandard
    ELSE Standard

\* the fixed messages of SinhalaRAG.process_query and generate_response
NoResultsMessage == "no relevant information found, ask another question (app.py:92)"
ErrorMessage == "an error occurred, try again (app.py:104)"
GenerationErrorMessage == "error generating the response, try again (app.py:148)"
\* response.text of a generation that succeeded
GeneratedAnswer == "response.text (app.py:145)"

\* k of vector_store.search(processed_query, k=5) (app.py line 89)
SearchK == 5
\* batch_size of create_collection (vector_store.py line 80)
BatchSize == 100

\* no collection is persisted / a collection holding `records`
AbsentStore == [exists |-> FALSE, records |-> <<>>]
StoreOf(records) == [exists |-> TRUE, records |-> records]

\* one call to a collaborator: its name, the query text it was given, whether it
\* succeeded, and the number of records it returned or wrote
Call(op, arg, ok, n) == [op |-> op, arg |-> arg, ok |-> ok, n |-> n]

\* app.py lines 59-65: the records of one file's chunks
FileDocuments(name, file_chunks) ==
    [i \in 1..Len(file_chunks) |->
        [text |-> file_chunks[i],
         source |-> name,
         chunk_id |-> i - 1,
         document_type |-> get_document_type(name)]]

\* vector_store.py lines 66-73: what create_collection stores for document i
StoredRecord(documents, i) ==
    [id |-> i - 1,
     text |-> documents[i].text,
     metadata |-> [source |-> documents[i].source,
                   chunk_id |-> documents[i].chunk_id,
                   document_type |-> documents[i].document_type]]

\* collection_exists with the comparison of line 40 inverted (count == 0)
collection_exists_Inverted(handle, st, o) ==
    IF ~handle THEN [exists |-> FALSE, calls |-> <<>>]
    ELSE IF ~o.count THEN [exists |-> FALSE, calls |-> <<Call("count", <<>>, FALSE, 0)>>]
    ELSE [exists |-> Len(st.records) = 0,
          calls |-> <<Call("count", <<>>, TRUE, Len(st.records))>>]

\* VectorStore.collection_exists: [exists, calls]; o.count says whether count() succeeds
collection_exists(handle, st, o) ==
    IF ~handle THEN [exists |-> FALSE, calls |-> <<>>]
    ELSE IF ~o.count THEN [exists |-> FALSE, calls |-> <<Call("count", <<>>, FALSE, 0)>>]
    ELSE [exists |-> Len(st.records) > 0,
          calls |-> <<Call("count", <<>>, TRUE, Len(st.records))>>]

\* VectorStore.create_collection: [store, collection, raised, calls]. o says which calls
\* to the index and the embedding model succeed; o.add_fails_at is the batch whose add
\* fails (0: none).
create_collection(handle, st, documents, o) ==
    LET deleted == st.exists /\ o.delete
        st1 == IF deleted THEN AbsentStore ELSE st
        created == ~st1.exists /\ o.create
        n == Len(documents)
        batches == (n + BatchSize - 1) \div BatchSize
        failing == IF o.add_fails_at \in 1..batches THEN o.add_fails_at ELSE 0
        added == IF failing = 0 THEN n ELSE (failing - 1) * BatchSize
        c1 == <<Call("delete_collection", <<>>, deleted, 0)>>
        c2 == c1 \o <<Call("create_collection", <<>>, created, 0)>>
        c3 == c2 \o <<Call("encode", <<>>, o.encode, n)>>
        c4 == c3 \o <<Call("add", <<>>, failing = 0, added)>>
    IN  IF ~created
        THEN [store |-> st1, collection |-> handle, raised |-> TRUE, calls |-> c2]
        ELSE IF ~o.encode
        THEN [store |-> StoreOf(<<>>), collection |-> TRUE, raised |-> TRUE, calls |-> c3]
        ELSE [store |-> StoreOf([i \in 1..added |-> StoredRecord(documents, i)]),
              collection |-> TRUE, raised |-> failing # 0, calls |-> c4]

RECURSIVE Documents(_, _, _)
\* app.py lines 50-65: the documents of the files i.. of pdf_files, each file's chunks
\* as file_chunks gives them
Documents(pdf_files, file_chunks, i) ==
    IF i > Len(pdf_files) THEN <<>>
    ELSE FileDocuments(pdf_files[i].name, file_chunks[pdf_files[i]])
         \o Documents(pdf_files, file_chunks, i + 1)

\* SinhalaRAG.setup_knowledge_base: [store, collection, raised, calls]. dir is the
\* uploads directory, pdf_files its .pdf files in the order os.listdir gave them.
setup_knowledge_base(dir, pdf_files, file_chunks, handle, st, o) ==
    LET same == [store |-> st, collection |-> handle, raised |-> FALSE, calls |-> <<>>]
        ce == collection_exists(handle, st, o)
        documents == Documents(pdf_files, file_chunks, 1)
        made == create_collection(handle, st, documents, o)
    IN  IF ~dir.exists \/ pdf_files = <<>> THEN same
        ELSE IF ce.exists \/ documents = <<>> THEN [same EXCEPT !.calls = ce.calls]
        ELSE [made EXCEPT !.calls = ce.calls \o made.calls]

\* line 91 of app.py without the test: an empty result goes on to generation
NoRelevantDocs_Never(relevant_docs) == FALSE

\* line 91 of app.py: not relevant_docs
NoRelevantDocs(relevant_docs) == relevant_docs = <<>>

\* VectorStore.search: [docs, calls]. `ranking` is the order in which the index ranks
\* the stored records for this query.
search(q, k, handle, st, o, ranking) ==
    IF ~handle THEN [docs |-> <<>>, calls |-> <<>>]
    ELSE IF ~o.encode
    THEN [docs |-> <<>>, calls |-> <<Call("encode", q, FALSE, 0)>>]
    ELSE IF ~o.query
    THEN [docs |-> <<>>,
          calls |-> <<Call("encode", q, TRUE, 1), Call("query", q, FALSE, 0)>>]
    ELSE LET n == Min(k, Len(st.records))
             docs == [i \in 1..n |->
                         [text |-> st.records[ranking[i]].text,
                          metadata |-> st.records[ranking[i]].metadata,
                          distance |-> i]]
         IN  [docs |-> docs,
              calls |-> <<Call("encode", q, TRUE, 1), Call("query", q, TRUE, n)>>]

\* SinhalaRAG.prepare_context: one labelled part per retrieved record
prepare_context(relevant_docs) ==
    [i \in 1..Len(relevant_docs) |->
        [source_info |-> relevant_docs[i].metadata.source,
         doc_type |-> relevant_docs[i].metadata.document_type,
         content |-> relevant_docs[i].text]]

\* SinhalaRAG.generate_response: o.generate says whether the generation service answers
generate_response(q, context, o) ==
    IF o.generate THEN GeneratedAnswer ELSE GenerationErrorMessage

----------------------------------------------------------------------------
(* Inputs *)

RECURSIVE BlockTexts(_, _)
\* the concatenations of at most n blocks of B
BlockTexts(B, n) ==
    IF n = 0 THEN {<<>>}
    ELSE LET shorter == BlockTexts(B, n - 1)
         IN  shorter \cup {t \o b : t \in shorter, b \in B}

\* sentences with their delimiters, the pieces of a create_chunks input
SentenceBlocks ==
    { Rep("a", 30) \o <<".">>,
      Rep("b", 30) \o <<"!", " ">>,
      Rep("c", 4) \o <<" ">> \o Rep("c", 4) \o <<" ">> \o Rep("c", 4) \o <<" ">>
        \o Rep("c", 4) \o <<" ">> \o Rep("c", 4) \o <<" ">> \o Rep("c", 10) \o <<"?", " ">>,
      Rep("d", 40) \o <<"u17D4">>,
      Rep("e", 9) \o <<".">>,
      Rep("f", 70) \o <<".", " ">>,
      <<" ", ".">> }

\* the (chunk_size, chunk_overlap) pairs a DocumentProcessor is constructed with
ChunkSizes == {35, 60, 80}
ChunkOverlaps == {0, 5, 20}

\* the pieces of a clean_text input
CleanBlocks == {PageWord, <<" ">>, <<"1">>, <<"2">>, <<"a">>, <<"u00E9">>}

\* what a page's extract_text() can give: an exception, or a text
PageResults ==
    { [ok |-> FALSE, text |-> <<>>],
      [ok |-> TRUE, text |-> <<" ">>],
      [ok |-> TRUE, text |-> <<"a", "b", ".", "LF">>],
      [ok |-> TRUE, text |-> Rep("a", 30) \o <<" ">> \o Rep("b", 30) \o <<".">>],
      [ok |-> TRUE, text |-> <<"a", "LF">> \o PageWord \o <<" ", "7", "LF">>] }

\* the documents of at most n pages
DocumentsUpTo(n) == UNION {[1..k -> PageResults] : k \in 0..n}

\* the whitespace-separated tokens of a process_query input
QueryTokens ==
    { <<"g", "i", "n", "u", "m", "k", "a", "r", "a", "n", "a", "y", "a">>,
      <<"k", "o", "h", "o", "m", "a", "d", "a">>,
      <<"M", "a", "r", "g", "i", "n">>,
      <<"c", "a", "s", "h", "f", "l", "o", "w">>,
      <<"U", "s", ",">>,
      <<"?">>,
      <<"C", "u", "s", "t", "o", "m", ",">>,
      <<"t", "a", "x", ",">>,
      <<"u0D85", "u0D9C", "u0DBA">>,
      <<"u0DB8", "u0DD4", "u0DAF", "u0DBD", "u0DCA">> }

\* the queries of at most n tokens, joined by single spaces
QueriesUpTo(n) == {Join(ws) : ws \in UNION {[1..k -> QueryTokens] : k \in 0..n}}

\* the arguments of add_custom_mapping
CustomMappings ==
    { << <<"C", "u", "s", "t", "o", "m">>, <<"u0DC0", "u0DD2", "u0DC1", "u0DDA", "u0DC2">> >>,
      << <<"C", "u", "s", "t", "o", "m">>, <<"s", "p", "l">> >>,
      << <<"K", "o", "h", "o", "m", "a", "d", "a">>, <<"s", "p", "l">> >> }

\* files the uploads directory can hold: a name, whether the file opens as a PDF,
\* and what its pages give
Lkas2 ==
    [name |-> <<"L", "K", "A", "S", "2", ".", "p", "d", "f">>, readable |-> TRUE,
     pages |-> << [ok |-> TRUE,
                   text |-> Rep("a", 30) \o <<" ">> \o Rep("b", 30) \o <<".">>] >>]
Lkas2Revised ==
    [name |-> <<"L", "K", "A", "S", "2", ".", "p", "d", "f">>, readable |-> TRUE,
     pages |-> << [ok |-> TRUE,
                   text |-> Rep("c", 600) \o <<".", "LF">> \o Rep("d", 600) \o <<".">>] >>]
Slfrs ==
    [name |-> <<"S", "L", "F", "R", "S", ".", "p", "d", "f">>, readable |-> TRUE,
     pages |-> << [ok |-> FALSE, text |-> <<>>],
                  [ok |-> TRUE, text |-> Rep("e", 60) \o <<"?">>] >>]
Unreadable ==
    [name |-> <<"x", ".", "p", "d", "f">>, readable |-> FALSE, pages |-> <<>>]
Notes ==
    [name |-> <<"a", ".", "t", "x", "t">>, readable |-> TRUE, pages |-> <<>>]

UploadFiles == {Lkas2, Lkas2Revised, Slfrs, Unreadable, Notes}

\* what the default DocumentProcessor of app.py line 21 extracts from each file
FileChunks ==
    [f \in UploadFiles |->
        extract_text_from_pdf(f.readable, f.pages, DefaultChunkSize, DefaultChunkOverlap)]

\* the states of the uploads directory a startup can find: missing, or holding files
UploadStates ==
    {[exists |-> FALSE, files |-> {}]}
    \cup {[exists |-> TRUE, files |-> F] :
            F \in {{}, {Notes}, {Unreadable}, {Lkas2}, {Lkas2Revised, Notes},
                   {Lkas2, Slfrs}}}

\* the orders in which os.listdir can give the files of F
Orderings(F) ==
    {o \in [1..Cardinality(F) -> F] : \A i, j \in 1..Cardinality(F) : o[i] = o[j] => i = j}

\* the orders in which the index can rank n records
Rankings(n) == {r \in [1..n -> 1..n] : \A i, j \in 1..n : r[i] = r[j] => i = j}

\* which calls of a startup succeed
StartupOutcomes ==
    [get : BOOLEAN, count : BOOLEAN, delete : BOOLEAN, create : BOOLEAN,
     encode : BOOLEAN, add_fails_at : 0..1]

\* the outcomes of StartupOutcomes that differ in a call this startup makes: a call
\* that is not made is listed as succeeding
StartupOutcomesFor(dir, pdf_files, file_chunks, st) ==
    LET enters == dir.exists /\ pdf_files # <<>>
        has_documents == enters /\ Documents(pdf_files, file_chunks, 1) # <<>>
    IN  {o \in StartupOutcomes :
            LET handle == st.exists /\ o.get
                ingests == /\ has_documents
                           /\ ~(handle /\ o.count /\ Len(st.records) > 0)
                created == (~st.exists \/ o.delete) /\ o.create
            IN  /\ ~st.exists => o.get
                /\ ~(enters /\ handle) => o.count
                /\ ~(ingests /\ st.exists) => o.delete
                /\ ~ingests => o.create
                /\ ~(ingests /\ created) => o.encode
                /\ ~(ingests /\ created /\ o.encode) => o.add_fails_at = 0}

\* which calls of a query succeed
QueryOutcomes == [encode : BOOLEAN, query : BOOLEAN, generate : BOOLEAN]

\* the outcomes of QueryOutcomes that differ in a call this query makes
QueryOutcomesFor(handle, st) ==
    {o \in QueryOutcomes :
        /\ ~handle => o.encode
        /\ ~(handle /\ o.encode) => o.query
        /\ ~(handle /\ o.encode /\ o.query /\ Len(st.records) > 0) => o.generate}

\* the rankings that differ in what a search with outcome o returns
RankingsFor(handle, st, o) ==
    IF handle /\ o.encode /\ o.query
    THEN Rankings(Len(st.records))
    ELSE {[i \in 1..Len(st.records) |-> i]}

\* the questions put to SinhalaRAG.process_query
RagQueries ==
    { <<"g", "i", "n", "u", "m", "k", "a", "r", "a", "n", "a", "y", "a">>,
      <<"t", "a", "x", ",", " ", "u0D85", "u0D9C", "u0DBA">>,
      <<"M", "a", "r", "g", "i", "n">> }

----------------------------------------------------------------------------
(* The state machine *)

\* DocumentProcessor.__init__ (lines 9-11), and the inputs its caller holds
DPInit(size, overlap, doc, x) ==
    /\ chunk_size = size
    /\ chunk_overlap = overlap
    /\ dp_op = "init"
    /\ pages = doc
    /\ text = x
    /\ cleaned = <<>>
    /\ chunks = <<>>
    /\ seeded = <<>>

\* SinhalaTransliterator.__init__ (lines 8-111), and the query its caller holds
TRInit(q) ==
    /\ transliteration_map = InitialTransliterationMap
    /\ phrase_map = InitialPhraseMap
    /\ tr_op = "init"
    /\ query = q
    /\ result = <<>>
    /\ ret = <<>>
    /\ is_sinhala = FALSE
    /\ mappings_added = <<>>
    /\ suggestions = <<>>
    /\ common_terms = <<>>

\* DocumentProcessor.clean_text(text)
CleanText ==
    /\ dp_op' = "clean_text"
    /\ cleaned' = clean_text(text)
    /\ UNCHANGED <<chunk_size, chunk_overlap, pages, text, chunks, seeded>>
    /\ UNCHANGED tr_vars
    /\ UNCHANGED cq_vars
    /\ UNCHANGED rag_vars

\* DocumentProcessor.create_chunks(text)
CreateChunks ==
    LET run == ChunkRun(text, chunk_size, chunk_overlap)
    IN  /\ dp_op' = "create_chunks"
        /\ chunks' = run.chunks
        /\ seeded' = run.seeded
        /\ UNCHANGED <<chunk_size, chunk_overlap, pages, text, cleaned>>
        /\ UNCHANGED tr_vars
        /\ UNCHANGED cq_vars
        /\ UNCHANGED rag_vars

\* DocumentProcessor.extract_text_from_pdf: the file opens and its pages give `pages`
ExtractTextFromPdf ==
    LET raw == PagesText(pages, 1)
        cleaned_text == clean_text(raw)
        run == ChunkRun(cleaned_text, chunk_size, chunk_overlap)
    IN  /\ dp_op' = "extract_text_from_pdf"
        /\ text' = raw
        /\ IF Strip(raw) = <<>>
           THEN cleaned' = <<>> /\ chunks' = <<>> /\ seeded' = <<>>
           ELSE cleaned' = cleaned_text /\ chunks' = run.chunks /\ seeded' = run.seeded
        /\ UNCHANGED <<chunk_size, chunk_overlap, pages>>
        /\ UNCHANGED tr_vars
        /\ UNCHANGED cq_vars
        /\ UNCHANGED rag_vars

\* DocumentProcessor.extract_text_from_pdf: open() or PdfReader raises (lines 41-43)
ExtractTextFails ==
    /\ dp_op' = "extract_text_from_pdf_failed"
    /\ chunks' = <<>>
    /\ UNCHANGED <<chunk_size, chunk_overlap, pages, text, cleaned, seeded>>
    /\ UNCHANGED tr_vars
    /\ UNCHANGED cq_vars
    /\ UNCHANGED rag_vars

\* SinhalaTransliterator.process_query(query)
ProcessQuery ==
    LET r == process_query(query, transliteration_map, phrase_map)
    IN  /\ tr_op' = "process_query"
        /\ result' = r.result
        /\ ret' = r.ret
        /\ is_sinhala' = IF r.checked THEN r.native ELSE is_sinhala
        /\ suggestions' = <<>>
        /\ common_terms' = <<>>
        /\ UNCHANGED <<transliteration_map, phrase_map, query, mappings_added>>
        /\ UNCHANGED dp_vars
        /\ UNCHANGED cq_vars
        /\ UNCHANGED rag_vars

\* SinhalaTransliterator._is_sinhala_text(query)
IsSinhalaText ==
    /\ tr_op' = "_is_sinhala_text"
    /\ is_sinhala' = _is_sinhala_text(query)
    /\ result' = <<>>
    /\ ret' = <<>>
    /\ suggestions' = <<>>
    /\ common_terms' = <<>>
    /\ UNCHANGED <<transliteration_map, phrase_map, query, mappings_added>>
    /\ UNCHANGED dp_vars
    /\ UNCHANGED cq_vars
    /\ UNCHANGED rag_vars

\* SinhalaTransliterator.add_custom_mapping(english, sinhala)
AddCustomMapping(english, sinhala) ==
    /\ Len(mappings_added) < MaxAdds
    /\ tr_op' = "add_custom_mapping"
    /\ transliteration_map' = add_custom_mapping(transliteration_map, english, sinhala)
    /\ mappings_added' = Append(mappings_added, <<english, sinhala>>)
    /\ result' = <<>>
    /\ ret' = <<>>
    /\ suggestions' = <<>>
    /\ common_terms' = <<>>
    /\ UNCHANGED <<phrase_map, query, is_sinhala>>
    /\ UNCHANGED dp_vars
    /\ UNCHANGED cq_vars
    /\ UNCHANGED rag_vars

\* SinhalaTransliterator.suggest_sinhala_terms(query)
SuggestSinhalaTerms ==
    /\ tr_op' = "suggest_sinhala_terms"
    /\ suggestions' = suggest_sinhala_terms(query, transliteration_map)
    /\ result' = <<>>
    /\ ret' = <<>>
    /\ common_terms' = <<>>
    /\ UNCHANGED <<transliteration_map, phrase_map, query, is_sinhala, mappings_added>>
    /\ UNCHANGED dp_vars
    /\ UNCHANGED cq_vars
    /\ UNCHANGED rag_vars

\* SinhalaTransliterator.get_common_terms()
GetCommonTerms ==
    /\ tr_op' = "get_common_terms"
    /\ common_terms' = get_common_terms(transliteration_map)
    /\ result' = <<>>
    /\ ret' = <<>>
    /\ suggestions' = <<>>
    /\ UNCHANGED <<transliteration_map, phrase_map, query, is_sinhala, mappings_added>>
    /\ UNCHANGED dp_vars
    /\ UNCHANGED cq_vars
    /\ UNCHANGED rag_vars

\* no process_query call is running in steps
CQInit ==
    /\ pq_pc = "idle"
    /\ pq_words = <<>>
    /\ pq_translated = <<>>
    /\ scan_pos = 0
    /\ scan_used = 0
    /\ map_at_call = <<>>
    /\ adds_at_call = 0

\* process_query(query) on one thread, lines 115-131: the early returns, the phrase
\* pass and the split
PQStart ==
    /\ pq_pc = "idle"
    /\ tr_op' = "process_query"
    /\ map_at_call' = transliteration_map
    /\ adds_at_call' = Len(mappings_added)
    /\ pq_translated' = <<>>
    /\ IF query = <<>> \/ _is_sinhala_text(query)
       THEN /\ pq_pc' = "done"
            /\ ret' = query
            /\ pq_words' = <<>>
       ELSE /\ pq_pc' = "word"
            /\ ret' = <<>>
            /\ pq_words' = Words(PhrasePass(Lower(query), phrase_map, 1))
    /\ UNCHANGED <<transliteration_map, phrase_map, query, result, is_sinhala,
                   mappings_added, suggestions, common_terms, scan_pos, scan_used>>
    /\ UNCHANGED dp_vars
    /\ UNCHANGED rag_vars

\* line 138: clean_word in self.transliteration_map, for the next word
PQContains ==
    /\ pq_pc = "word"
    /\ Len(pq_translated) < Len(pq_words)
    /\ pq_pc' = IF HasKey(transliteration_map, CleanWord(pq_words[Len(pq_translated) + 1]))
                THEN "lookup" ELSE "scan_start"
    /\ UNCHANGED <<pq_words, pq_translated, scan_pos, scan_used, map_at_call, adds_at_call>>
    /\ UNCHANGED <<dp_vars, tr_vars>>
    /\ UNCHANGED rag_vars

\* line 139: translated_words.append(self.transliteration_map[clean_word])
PQLookup ==
    /\ pq_pc = "lookup"
    /\ pq_translated' = Append(pq_translated,
           Lookup(transliteration_map, CleanWord(pq_words[Len(pq_translated) + 1])))
    /\ pq_pc' = "word"
    /\ UNCHANGED <<pq_words, scan_pos, scan_used, map_at_call, adds_at_call>>
    /\ UNCHANGED <<dp_vars, tr_vars>>
    /\ UNCHANGED rag_vars

\* line 164: the iterator over self.transliteration_map.items() is made
PQScanStart ==
    /\ pq_pc = "scan_start"
    /\ scan_pos' = 1
    /\ scan_used' = Len(transliteration_map)
    /\ pq_pc' = "scan"
    /\ UNCHANGED <<pq_words, pq_translated, map_at_call, adds_at_call>>
    /\ UNCHANGED <<dp_vars, tr_vars>>
    /\ UNCHANGED rag_vars

\* lines 164-168 and 143: the iterator's next step. A dict whose size changed since
\* the iterator was made raises RuntimeError, which process_query does not catch.
PQScanNext ==
    /\ pq_pc = "scan"
    /\ LET word == pq_words[Len(pq_translated) + 1]
           clean_word == CleanWord(word)
           d == transliteration_map
       IN  IF Len(d) # scan_used
           THEN /\ pq_pc' = "failed"
                /\ UNCHANGED <<pq_translated, scan_pos>>
           ELSE IF scan_pos > Len(d)
           THEN /\ pq_translated' = Append(pq_translated,
                                        IF clean_word # <<>> THEN clean_word ELSE word)
                /\ pq_pc' = "word"
                /\ UNCHANGED scan_pos
           ELSE IF /\ \/ IsSubstring(clean_word, d[scan_pos][1])
                      \/ IsSubstring(d[scan_pos][1], clean_word)
                   /\ Len(clean_word) > 3
           THEN /\ pq_translated' = Append(pq_translated,
                                        IF d[scan_pos][2] # <<>> THEN d[scan_pos][2] ELSE word)
                /\ pq_pc' = "word"
                /\ UNCHANGED scan_pos
           ELSE /\ scan_pos' = scan_pos + 1
                /\ UNCHANGED <<pq_translated, pq_pc>>
    /\ UNCHANGED <<pq_words, scan_used, map_at_call, adds_at_call>>
    /\ UNCHANGED <<dp_vars, tr_vars>>
    /\ UNCHANGED rag_vars

\* lines 145-153: the join, the score and the return
PQFinish ==
    /\ pq_pc = "word"
    /\ Len(pq_translated) = Len(pq_words)
    /\ result' = Join(pq_translated)
    /\ ret' = IF SignificantTranslation(_translation_score(query, Join(pq_translated)))
              THEN Join(pq_translated) ELSE query
    /\ pq_pc' = "done"
    /\ UNCHANGED <<transliteration_map, phrase_map, tr_op, query, is_sinhala,
                   mappings_added, suggestions, common_terms>>
    /\ UNCHANGED <<pq_words, pq_translated, scan_pos, scan_used, map_at_call, adds_at_call>>
    /\ UNCHANGED dp_vars
    /\ UNCHANGED rag_vars

\* add_custom_mapping(english, sinhala) on another thread: the store of line 190,
\* between any two steps of the running process_query
ConcurrentAddCustomMapping(english, sinhala) ==
    /\ Len(mappings_added) < MaxAdds
    /\ transliteration_map' = add_custom_mapping(transliteration_map, english, sinhala)
    /\ mappings_added' = Append(mappings_added, <<english, sinhala>>)
    /\ UNCHANGED <<phrase_map, tr_op, query, result, ret, is_sinhala, suggestions,
                   common_terms>>
    /\ UNCHANGED <<dp_vars, cq_vars>>
    /\ UNCHANGED rag_vars

\* before the first start: nothing persisted, no process
RagInit ==
    /\ uploads = [exists |-> FALSE, files |-> {}]
    /\ store = AbsentStore
    /\ collection = FALSE
    /\ rag_state = "down"
    /\ rag_op = "init"
    /\ rag_outcome = "returned"
    /\ response = ""
    /\ calls = <<>>
    /\ startups = 0

\* A start of the serving process with the uploads directory in state dir:
\* VectorStore.__init__ (vector_store.py lines 27-32) and SinhalaRAG.__init__ with
\* setup_knowledge_base (app.py lines 22, 151). An exception out of
\* setup_knowledge_base ends the import of the module, and with it the process.
Startup ==
    /\ startups < MaxStartups
    /\ \E dir \in UploadStates :
          \E pdf_files \in Orderings({f \in dir.files : EndsWith(f.name, <<".", "p", "d", "f">>)}) :
          \E o \in StartupOutcomesFor(dir, pdf_files, FileChunks, store) :
             LET handle == store.exists /\ o.get
                 r == setup_knowledge_base(dir, pdf_files, FileChunks, handle, store, o)
             IN  /\ uploads' = IF dir.exists THEN dir ELSE [exists |-> TRUE, files |-> {}]
                 /\ store' = r.store
                 /\ collection' = r.collection
                 /\ rag_state' = IF r.raised THEN "crashed" ELSE "running"
                 /\ rag_outcome' = IF r.raised THEN "raised" ELSE "returned"
                 /\ calls' = <<Call("get_collection", <<>>, handle, 0)>> \o r.calls
    /\ rag_op' = "setup_knowledge_base"
    /\ response' = ""
    /\ startups' = startups + 1
    /\ UNCHANGED <<dp_vars, tr_vars, cq_vars>>

\* SinhalaRAG.process_query(user_query) in the running process. search and
\* generate_response catch what their calls raise, and prepare_context reads the keys
\* create_collection wrote, so the handler of lines 102-104 has nothing to catch.
RagProcessQuery ==
    /\ rag_state = "running"
    /\ \E user_query \in RagQueries :
          LET processed_query == process_query(user_query, transliteration_map, phrase_map).ret
          IN
          \E o \in QueryOutcomesFor(collection, store) :
          \E ranking \in RankingsFor(collection, store, o) :
          LET found == search(processed_query, SearchK, collection, store, o, ranking)
              relevant_docs == found.docs
              context == prepare_context(relevant_docs)
              c1 == <<Call("process_query", user_query, TRUE, 0)>>
              c2 == c1 \o <<Call("search", processed_query, TRUE, Len(relevant_docs))>>
                       \o found.calls
              c3 == c2 \o <<Call("prepare_context", <<>>, TRUE, Len(context))>>
              c4 == c3 \o <<Call("generate_content", processed_query, o.generate,
                                  Len(context))>>
          IN  IF NoRelevantDocs(relevant_docs)
              THEN /\ response' = NoResultsMessage
                   /\ calls' = c2
              ELSE /\ response' = generate_response(processed_query, context, o)
                   /\ calls' = c4
    /\ rag_op' = "process_query"
    /\ rag_outcome' = "returned"
    /\ UNCHANGED <<uploads, store, collection, rag_state, startups>>
    /\ UNCHANGED <<dp_vars, tr_vars, cq_vars>>

\* The chunker: a DocumentProcessor of any configuration, create_chunks on any text
InitChunk ==
    /\ \E size \in ChunkSizes, overlap \in ChunkOverlaps, x \in BlockTexts(SentenceBlocks, MaxSentences) :
          DPInit(size, overlap, <<>>, x)
    /\ TRInit(<<>>)
    /\ CQInit
    /\ RagInit

NextChunk == CreateChunks

SpecChunk == InitChunk /\ [][NextChunk]_vars

\* The cleaner: the default DocumentProcessor of app.py; clean_text on any raw text,
\* extract_text_from_pdf on any document
InitClean ==
    /\ \/ \E x \in BlockTexts(CleanBlocks, MaxBlocks) : DPInit(DefaultChunkSize, DefaultChunkOverlap, <<>>, x)
       \/ \E doc \in DocumentsUpTo(MaxPages) : DPInit(DefaultChunkSize, DefaultChunkOverlap, doc, <<>>)
    /\ TRInit(<<>>)
    /\ CQInit
    /\ RagInit

NextClean ==
    \/ CleanText
    \/ ExtractTextFromPdf
    \/ ExtractTextFails

SpecClean == InitClean /\ [][NextClean]_vars

\* The normalizer: one SinhalaTransliterator, any query, any custom mappings
InitNorm ==
    /\ DPInit(DefaultChunkSize, DefaultChunkOverlap, <<>>, <<>>)
    /\ \E q \in QueriesUpTo(MaxTokens) : TRInit(q)
    /\ CQInit
    /\ RagInit

NextNorm ==
    \/ ProcessQuery
    \/ IsSinhalaText
    \/ \E m \in CustomMappings : AddCustomMapping(m[1], m[2])
    \/ SuggestSinhalaTerms
    \/ GetCommonTerms

SpecNorm == InitNorm /\ [][NextNorm]_vars

\* The normalizer under threads: one process_query call taken step by step, with
\* add_custom_mapping calls (themselves one at a time) between its steps
InitConc == InitNorm

NextConc ==
    \/ PQStart
    \/ PQContains
    \/ PQLookup
    \/ PQScanStart
    \/ PQScanNext
    \/ PQFinish
    \/ \E m \in CustomMappings : ConcurrentAddCustomMapping(m[1], m[2])

SpecConc == InitConc /\ [][NextConc]_vars

\* The service: starts of the process with any uploads directory and any outcome
\* of the calls to the index, the embedding model and the generation service, and
\* questions to the running process
InitRag ==
    /\ DPInit(DefaultChunkSize, DefaultChunkOverlap, <<>>, <<>>)
    /\ TRInit(<<>>)
    /\ CQInit
    /\ RagInit

NextRag ==
    \/ Startup
    \/ RagProcessQuery

SpecRag == InitRag /\ [][NextRag]_vars

\* The whole program: either component, any of its operations
Init == InitChunk \/ InitClean \/ InitNorm \/ InitConc \/ InitRag

Next == NextChunk \/ NextClean \/ NextNorm \/ NextConc \/ NextRag

Spec == Init /\ [][Next]_vars

----------------------------------------------------------------------------
(* Claims about create_chunks, checked under SpecChunk *)

\* C1: every chunk create_chunks returns is longer than 50 characters, and an
\* empty text gives no chunks.
C1_ChunksLongerThanMin ==
    dp_op = "create_chunks" =>
        /\ \A i \in 1..Len(chunks) : Len(chunks[i]) > 50
        /\ (text = <<>> => chunks = <<>>)

\* C1 witness: create_chunks kept a chunk and dropped a shorter one
C1_Witness ==
    /\ dp_op = "create_chunks"
    /\ Len(chunks) >= 1
    /\ Len(seeded) >= Len(chunks)

\* C2, as claimed: with no overlap and no sentence longer than chunk_size, no
\* returned chunk is longer than chunk_size.
C2_ChunkWithinSize ==
    (/\ dp_op = "create_chunks"
     /\ chunk_overlap = 0
     /\ \A i \in 1..Len(Sentences(text)) : Len(Sentences(text)[i]) <= chunk_size)
    => \A i \in 1..Len(chunks) : Len(chunks[i]) <= chunk_size

\* C3, as claimed: with chunk_overlap > 0, the buffer that follows an emitted one is
\* the last min(chunk_overlap // 10, word count) words of the emitted buffer, a
\* space, and the sentence that did not fit.
C3_OverlapSeed ==
    (dp_op = "create_chunks" /\ chunk_overlap > 0) =>
        \A k \in 1..Len(seeded) :
            LET words == Words(seeded[k].emitted)
                n == Min(chunk_overlap \div 10, Len(words))
            IN  seeded[k].buffer =
                    Join(SubSeq(words, Len(words) - n + 1, Len(words)))
                    \o <<" ">> \o seeded[k].sentence

\* sentence stands whole at the end of chunk: alone, or after a prefix and a space
WholeAtEnd(sentence, chunk) ==
    \/ chunk = sentence
    \/ /\ Len(chunk) > Len(sentence) + 1
       /\ SubSeq(chunk, Len(chunk) - Len(sentence), Len(chunk)) = <<" ">> \o sentence

\* C15, as claimed: whatever chunk_size > 0, each sentence longer than chunk_size
\* stands whole in one returned chunk, alone or after the overlap prefix.
C15_OversizedSentenceWhole ==
    dp_op = "create_chunks" =>
        \A i \in 1..Len(Sentences(text)) :
            Len(Sentences(text)[i]) > chunk_size
            => \E k \in 1..Len(chunks) : WholeAtEnd(Sentences(text)[i], chunks[k])

\* C15, amended: each sentence longer than chunk_size and longer than 50 characters
\* stands whole in one returned chunk, alone or after the overlap prefix.
C15_LongOversizedSentenceWhole ==
    dp_op = "create_chunks" =>
        \A i \in 1..Len(Sentences(text)) :
            (Len(Sentences(text)[i]) > chunk_size /\ Len(Sentences(text)[i]) > 50)
            => \E k \in 1..Len(chunks) : WholeAtEnd(Sentences(text)[i], chunks[k])

\* C15 witness: a sentence longer than chunk_size was returned whole after an overlap
\* prefix taken from the buffer emitted before it
C15_Witness ==
    /\ dp_op = "create_chunks"
    /\ \E i \in 1..Len(Sentences(text)), k \in 1..Len(chunks) :
          /\ Len(Sentences(text)[i]) > chunk_size
          /\ chunks[k] # Sentences(text)[i]
          /\ WholeAtEnd(Sentences(text)[i], chunks[k])

----------------------------------------------------------------------------
(* Claims about clean_text, checked under SpecClean *)

\* C7, as claimed: after extraction of pages that hold no dash, the cleaned text
\* holds no dash: every page marker was replaced whole.
C7_MarkersCollapsed ==
    (/\ dp_op = "extract_text_from_pdf"
     /\ \A i \in 1..Len(pages) : \A j \in 1..Len(pages[i].text) : pages[i].text[j] # "-")
    => \A j \in 1..Len(cleaned) : cleaned[j] # "-"

\* C8, as claimed: cleaning a cleaned text again changes nothing but whitespace.
C8_CleanIdempotent ==
    dp_op = "clean_text" =>
        SelectSeq(clean_text(cleaned), LAMBDA c : c \notin Whitespace)
        = SelectSeq(cleaned, LAMBDA c : c \notin Whitespace)

----------------------------------------------------------------------------
(* Claims about process_query, checked under SpecNorm *)

\* C4, as claimed: when the query holds a phrase key and the candidate is accepted,
\* the returned text holds that key's phrase-map value character for character.
C4_PhraseVerbatim ==
    (tr_op = "process_query" /\ ret # query) =>
        \A k \in 1..Len(phrase_map) :
            IsSubstring(phrase_map[k][1], Lower(query))
            => IsSubstring(phrase_map[k][2], ret)

\* no dictionary key, exact or partial, and no phrase key matches part of the query
NoDictionaryMatch ==
    /\ \A k \in 1..Len(phrase_map) : ~IsSubstring(phrase_map[k][1], Lower(query))
    /\ \A i \in 1..Len(Words(Lower(query))) :
          LET token == CleanWord(Words(Lower(query))[i])
          IN  \A k \in 1..Len(transliteration_map) :
                 /\ ~IsSubstring(transliteration_map[k][1], token)
                 /\ ~IsSubstring(token, transliteration_map[k][1])

\* C5, as claimed: a query that no dictionary entry matches is returned verbatim.
C5_NoMatchVerbatim ==
    (tr_op = "process_query" /\ NoDictionaryMatch) => ret = query

\* add_custom_mapping call j is the last one for its lower-cased key
LatestMapping(j) ==
    \A j2 \in (j + 1)..Len(mappings_added) :
        Lower(mappings_added[j2][1]) # Lower(mappings_added[j][1])

\* C6, as claimed: after add_custom_mapping(K, V), process_query returns a text in
\* which every token of the query whose stripped lower-case form is lower(K) is V.
C6_MappingAlwaysApplied ==
    tr_op = "process_query" =>
        \A j \in 1..Len(mappings_added) :
            LatestMapping(j) =>
                LET words == Words(Lower(query))
                    out == Words(ret)
                IN  \A i \in 1..Len(words) :
                        CleanWord(words[i]) = Lower(mappings_added[j][1])
                        => (i <= Len(out) /\ out[i] = mappings_added[j][2])

\* C6, amended: for a non-empty query that is not native script, every token of the
\* phrase-substituted lower-cased query whose stripped form is lower(K) is V in the
\* candidate, and process_query returns that candidate if more than 0.3 of its
\* characters are Sinhala and the query otherwise.
C6_MappingAppliedToCandidate ==
    (/\ tr_op = "process_query"
     /\ query # <<>>
     /\ ~(CountIn(query, WordChars) > 0
          /\ 2 * CountIn(query, SinhalaBlock) > CountIn(query, WordChars)))
    => \A j \in 1..Len(mappings_added) :
          LatestMapping(j) =>
              LET words == Words(PhrasePass(Lower(query), phrase_map, 1))
                  out == Words(result)
              IN  \A i \in 1..Len(words) :
                      CleanWord(words[i]) = Lower(mappings_added[j][1])
                      => /\ i <= Len(out)
                         /\ out[i] = mappings_added[j][2]
                         /\ ret = IF /\ result # query
                                     /\ 10 * CountIn(result, SinhalaBlock) > 3 * Len(result)
                                  THEN result ELSE query

\* C6 witness: a mapping was added, and a later process_query replaced a token by its
\* value and returned the candidate
C6_Witness ==
    /\ tr_op = "process_query"
    /\ Len(mappings_added) >= 1
    /\ ret = result
    /\ ret # query
    /\ \E i \in 1..Len(Words(Lower(query))) :
          /\ CleanWord(Words(Lower(query))[i]) = Lower(mappings_added[1][1])
          /\ i <= Len(Words(ret))
          /\ Words(ret)[i] = mappings_added[1][2]

\* the definition of native script the claim gives: word characters exist and more
\* than half as many Sinhala-block characters as word characters
NativeAsClaimed ==
    LET word_chars == Cardinality({i \in 1..Len(query) : query[i] \in WordChars})
        block_chars == Cardinality({i \in 1..Len(query) : query[i] \in SinhalaBlock})
    IN  word_chars > 0 /\ 2 * block_chars > word_chars

\* C9: process_query returns an empty or native-script query unchanged, and
\* _is_sinhala_text answers true exactly for the texts that are native as claimed
\* (never for a text without word characters).
C9_NativeUnchanged ==
    /\ (tr_op = "process_query" /\ (query = <<>> \/ NativeAsClaimed)) => ret = query
    /\ (tr_op = "_is_sinhala_text" \/ (tr_op = "process_query" /\ query # <<>>))
       => (is_sinhala <=> NativeAsClaimed)

\* C9 witness: a native-script query with Latin letters in it came back unchanged
C9_Witness ==
    /\ tr_op = "process_query"
    /\ NativeAsClaimed
    /\ \E i \in 1..Len(query) : query[i] \in LowerLatin
    /\ ret = query

\* C10: what process_query returns is the query itself, or the candidate with more
\* than 0.3 of its characters in the Sinhala block.
C10_ReturnedIsQueryOrAccepted ==
    tr_op = "process_query" =>
        \/ ret = query
        \/ /\ ret = result
           /\ 10 * CountIn(ret, SinhalaBlock) > 3 * Len(ret)

\* C10 witness: a candidate was built that differs from the query and was rejected
C10_Witness ==
    /\ tr_op = "process_query"
    /\ result # <<>>
    /\ result # query
    /\ ret = query

----------------------------------------------------------------------------
(* Claims about the dictionaries, checked under SpecNorm *)

\* C11: process_query, _is_sinhala_text, suggest_sinhala_terms and get_common_terms
\* leave the phrase and word dictionaries unchanged; add_custom_mapping(K, V) sets
\* the word entry at lower(K) to V and leaves every other word entry and the phrase
\* dictionary unchanged.
C11_DictionaryFrame ==
    [][/\ phrase_map' = phrase_map
       /\ tr_op' \in {"process_query", "_is_sinhala_text", "suggest_sinhala_terms",
                      "get_common_terms"}
          => transliteration_map' = transliteration_map
       /\ tr_op' = "add_custom_mapping"
          => LET K == Lower(mappings_added'[Len(mappings_added')][1])
                 V == mappings_added'[Len(mappings_added')][2]
                 old == transliteration_map
                 new == transliteration_map'
             IN  /\ \E i \in 1..Len(new) : new[i] = <<K, V>>
                 /\ \A i \in 1..Len(new) : new[i][1] = K => new[i][2] = V
                 /\ \A i \in 1..Len(old) :
                        old[i][1] # K => \E j \in 1..Len(new) : new[j] = old[i]
                 /\ \A j \in 1..Len(new) :
                        new[j][1] # K => \E i \in 1..Len(old) : old[i] = new[j]
      ]_vars

\* C11 witness: add_custom_mapping overwrote an entry the dictionary already held,
\* and a later suggest_sinhala_terms returned the new value
C11_Witness ==
    /\ tr_op = "suggest_sinhala_terms"
    /\ Len(mappings_added) >= 1
    /\ Len(transliteration_map) = Len(InitialTransliterationMap)
    /\ \E i \in 1..Len(suggestions) : suggestions[i] = mappings_added[1][2]

----------------------------------------------------------------------------
(* Claims about the word pass of process_query, checked under SpecNorm *)

\* the entries of the word dictionary whose key is a substring of clean or holds it
QualifyingEntries(clean) ==
    {k \in 1..Len(transliteration_map) :
        \/ IsSubstring(transliteration_map[k][1], clean)
        \/ IsSubstring(clean, transliteration_map[k][1])}

\* what the word pass gives for a token: the value of an exact match; without one,
\* for a stripped token longer than 3 characters with a qualifying entry, the value
\* of the first such entry; otherwise the stripped token, or, where keep_bare says
\* so, the token itself when stripping leaves nothing
WordPassToken(token, keep_bare) ==
    LET clean == SelectSeq(token, LAMBDA c : c \in WordChars)
        exact == {k \in 1..Len(transliteration_map) : transliteration_map[k][1] = clean}
    IN  IF exact # {} THEN transliteration_map[Least(exact)][2]
        ELSE IF Len(clean) > 3 /\ QualifyingEntries(clean) # {}
        THEN transliteration_map[Least(QualifyingEntries(clean))][2]
        ELSE IF keep_bare /\ clean = <<>> THEN token
        ELSE clean

\* the candidate of a query whose tokens the word pass treats as WordPassToken says
WordPassCandidate(keep_bare) ==
    LET tokens == Words(PhrasePass(Lower(query), phrase_map, 1))
    IN  Join([i \in 1..Len(tokens) |-> WordPassToken(tokens[i], keep_bare)])

\* C14, as claimed: in the word pass a token without exact match becomes the value of
\* the first entry whose key is a substring of the stripped token or holds it, if the
\* stripped token is longer than 3 characters; in every other case, a token made
\* only of punctuation included, it becomes the token stripped of non-word characters.
C14_PartialMatchOrStripped ==
    (tr_op = "process_query" /\ query # <<>> /\ ~is_sinhala)
    => result = WordPassCandidate(FALSE)

\* C14, amended: as claimed, except that a token stripping leaves nothing of (one
\* made only of punctuation or combining signs) is kept as it is.
C14_PartialMatchOrStrippedOrBare ==
    (tr_op = "process_query" /\ query # <<>> /\ ~is_sinhala)
    => result = WordPassCandidate(TRUE)

\* C14 witness: process_query replaced a token longer than 3 characters that has no
\* exact match by the value of an entry whose key it holds, next to a token made
\* only of punctuation
C14_Witness ==
    /\ tr_op = "process_query"
    /\ query # <<>>
    /\ ~is_sinhala
    /\ LET tokens == Words(Lower(query))
           out == Words(result)
       IN  /\ Len(out) = Len(tokens)
           /\ \E i \in 1..Len(tokens) :
                 /\ Len(tokens[i]) > 3
                 /\ \A k \in 1..Len(transliteration_map) :
                        transliteration_map[k][1] # tokens[i]
                 /\ \E k \in 1..Len(transliteration_map) :
                        /\ IsSubstring(transliteration_map[k][1], tokens[i])
                        /\ out[i] = transliteration_map[k][2]
           /\ \E i \in 1..Len(tokens) :
                 /\ \A j \in 1..Len(tokens[i]) : tokens[i][j] \in Punctuation
                 /\ out[i] = tokens[i]

----------------------------------------------------------------------------
(* Claims about process_query beside add_custom_mapping, checked under SpecConc *)

\* C12, as claimed: a process_query call that one add_custom_mapping call interleaves
\* with, at any point, does not fail, and returns what it would return with the
\* dictionary as it was before that call or as it is after it.
C12_ConcurrentAddSafe ==
    /\ pq_pc # "failed"
    /\ (pq_pc = "done" /\ Len(mappings_added) = adds_at_call + 1)
       => \/ ret = process_query(query, map_at_call, phrase_map).ret
          \/ ret = process_query(query, transliteration_map, phrase_map).ret

----------------------------------------------------------------------------
(* Claims about the orchestrator, checked under SpecRag *)

\* C13, as claimed: whatever call to the embedding model, the index or the generation
\* service fails, setup_knowledge_base and SinhalaRAG.process_query return, and
\* process_query returns one of the fixed messages.
C13_FailuresBecomeMessages ==
    /\ rag_op \in {"setup_knowledge_base", "process_query"} => rag_outcome = "returned"
    /\ (rag_op = "process_query" /\ \E i \in 1..Len(calls) : ~calls[i].ok)
       => response \in {NoResultsMessage, GenerationErrorMessage, ErrorMessage}

\* the positions in calls of the calls named op
CallsOf(op) == {i \in 1..Len(calls) : calls[i].op = op}

\* C16: in every SinhalaRAG.process_query execution the query is normalized first,
\* then searched for, then the context is assembled, then generation is invoked;
\* generation is invoked at most once, only after a search on the normalized query
\* returned at least one record, and with the normalized query; when the search
\* returns no record or fails, generation is not invoked and the no-results message
\* is returned.
C16_PipelineOrder ==
    rag_op = "process_query" =>
        LET normalizes == CallsOf("process_query")
            searches == CallsOf("search")
            contexts == CallsOf("prepare_context")
            generations == CallsOf("generate_content")
            normalized == process_query(calls[1].arg, transliteration_map, phrase_map).ret
        IN  /\ normalizes = {1}
            /\ searches = {2}
            /\ calls[2].arg = normalized
            /\ Cardinality(generations) <= 1
            /\ \A g \in generations :
                   /\ calls[2].n >= 1
                   /\ calls[g].arg = normalized
                   /\ \E c \in contexts : 2 < c /\ c < g
            /\ \A c \in contexts : 2 < c
            /\ (calls[2].n = 0 \/ \E i \in 1..Len(calls) : calls[i].op \in {"encode", "query"} /\ ~calls[i].ok)
               => (generations = {} /\ response = NoResultsMessage)

\* C16 witness: a question that normalization rewrote was searched for, records came
\* back, and generation answered
C16_Witness ==
    /\ rag_op = "process_query"
    /\ response = GeneratedAnswer
    /\ calls[2].arg # calls[1].arg
    /\ calls[2].n >= 2
    /\ calls[Len(calls)].op = "generate_content"
    /\ calls[Len(calls)].arg = calls[2].arg

====
